---- MODULE Spec2Model ----
(***************************************************************************)
(* FeedGen (src/src/app.ts): the per-row generation driver, the row        *)
(* optimisation pipeline (response parsing, reconciliation, metrics) and   *)
(* the approve / export / clear operations over the backing sheets.        *)
(*                                                                         *)
(* Text.  A JavaScript string is modelled as a sequence of text atoms; the *)
(* text is the concatenation of the atoms (Str).  An atom is a piece of    *)
(* text the program never looks inside: a word character run, a blank, the *)
(* separator, a newline, a double quote, or one of the four literal prompt *)
(* parts.  The empty string is <<>>.  `undefined` is the one-atom sequence *)
(* Undef, whose atom occurs in no text.                                    *)
(*                                                                         *)
(* Objects.  A JavaScript object is a sequence of <<key, value>> pairs     *)
(* with distinct keys, in insertion order (no key of the model is an       *)
(* integer-like string, so insertion order is the enumeration order).      *)
(***************************************************************************)
EXTENDS Integers, Sequences, FiniteSets, TLC

VARIABLES
    input,      \* the 'Input' sheet: [headers, rows], rows below the header region
    generated,  \* the 'Generated' sheet: the data rows below its header region
    output,     \* the 'Output' (approved) sheet: [header, rows], from its startRow on
    hidden,     \* indices (1-based) of generated rows hidden by the sheet filter
    op,         \* the handler that ran last
    ret,        \* what that handler returned (generateNextRow: the row index)
    wrote,      \* index (0-based) of the generated row the last generateNextRow wrote
    threw,      \* whether the last generateNextRow caught an exception of optimizeRow
    run,        \* the locals of the last optimizeRow call of RowSpec
    args,       \* inputs of the pure-function specifications
    metrics     \* result of the last getGenerationMetrics call of MetricsSpec

vars == <<input, generated, output, hidden, op, ret, wrote, threw, run, args, metrics>>

-----------------------------------------------------------------------------
(* Literals of app.ts *)

ORIGINAL_TITLE_TEMPLATE_PROMPT_PART == "product attribute keys in original title:"
CATEGORY_PROMPT_PART == "product category:"
TEMPLATE_PROMPT_PART == "product attribute keys:"
ATTRIBUTES_PROMPT_PART == "product attribute values:"
SEPARATOR == "|"

SP == " "
NL == "\n"
QUOTE == "\""
Undef == <<"\\undefined">>
GENERATED_TITLE_KEY == <<"Generated Title">>

\* Atoms matched by \w: runs of letters, digits, underscore.
WordAtoms ==
    {"item_id", "title", "description", "color", "size", "material",
     "Red", "red", "Shoe", "shoe", "Blue", "blue", "Wood", "wood",
     "1", "2", "10", "Footwear", "footwear", "desc"}

\* Atoms matched by \s.
SpaceAtoms == {SP, NL}

\* String.prototype.toLowerCase, atom by atom.
toLowerCaseAtom(a) ==
    CASE a = "Red" -> "red"
      [] a = "Shoe" -> "shoe"
      [] a = "Blue" -> "blue"
      [] a = "Wood" -> "wood"
      [] a = "Footwear" -> "footwear"
      [] OTHER -> a

toLowerCase(s) == [i \in 1..Len(s) |-> toLowerCaseAtom(s[i])]

\* The text of a string: its atoms concatenated.
RECURSIVE Str(_)
Str(s) == IF s = <<>> THEN "" ELSE Head(s) \o Str(Tail(s))

-----------------------------------------------------------------------------
(* String and array methods used by the pipeline *)

\* Index of the first occurrence of atom a in s, 0 when there is none.
IndexOf(s, a) ==
    IF \E i \in 1..Len(s) : s[i] = a
    THEN CHOOSE i \in 1..Len(s) : s[i] = a /\ \A j \in 1..(i - 1) : s[j] # a
    ELSE 0

\* s.replace(part, ''): the first occurrence of the literal part is removed.
replace(s, part) ==
    LET i == IndexOf(s, part)
    IN  IF i = 0 THEN s ELSE SubSeq(s, 1, i - 1) \o SubSeq(s, i + 1, Len(s))

\* s.split(sep): the pieces between the separators, empty pieces included.
RECURSIVE split(_, _)
split(s, sep) ==
    LET i == IndexOf(s, sep)
    IN  IF i = 0 THEN <<s>>
        ELSE <<SubSeq(s, 1, i - 1)>> \o split(SubSeq(s, i + 1, Len(s)), sep)

\* s.trim(): leading and trailing white space removed.
RECURSIVE trim(_)
trim(s) ==
    IF s = <<>> THEN s
    ELSE IF Head(s) \in SpaceAtoms THEN trim(Tail(s))
    ELSE IF s[Len(s)] \in SpaceAtoms THEN trim(SubSeq(s, 1, Len(s) - 1))
    ELSE s

\* array.filter(x => x) over strings: the empty strings are dropped.
RECURSIVE filterTruthy(_)
filterTruthy(a) ==
    IF a = <<>> THEN <<>>
    ELSE IF Head(a) = <<>> THEN filterTruthy(Tail(a))
    ELSE <<Head(a)>> \o filterTruthy(Tail(a))

\* array.join(sep); an undefined element joins as the empty string.
RECURSIVE join(_, _)
join(a, sep) ==
    LET text(x) == IF x = Undef THEN <<>> ELSE x
    IN  IF a = <<>> THEN <<>>
        ELSE IF Len(a) = 1 THEN text(a[1])
        ELSE text(a[1]) \o sep \o join(Tail(a), sep)

\* array.includes(x)
includes(a, x) == \E i \in 1..Len(a) : a[i] = x

\* The elements of an array as a set (new Set(array)).
SetOf(a) == {a[i] : i \in 1..Len(a)}

\* [...new Set(array)]: first occurrences, in order.
RECURSIVE dedup(_)
dedup(a) ==
    IF a = <<>> THEN <<>>
    ELSE LET front == dedup(SubSeq(a, 1, Len(a) - 1))
             x == a[Len(a)]
         IN  IF includes(front, x) THEN front ELSE Append(front, x)

\* JavaScript truthiness of a cell or of a missing property.
Truthy(v) == v # Undef /\ v # <<>>

-----------------------------------------------------------------------------
(* WORD_MATCH_REGEX = /(\w|\s)*\w(?=")|\w+/g *)

\* First index at or after p whose atom is not in the class (Len(s) + 1 at the end).
RECURSIVE RunEnd(_, _, _)
RunEnd(s, p, class) ==
    IF p > Len(s) \/ s[p] \notin class THEN p ELSE RunEnd(s, p + 1, class)

\* s.match(WORD_MATCH_REGEX) scanning from index p; null is the empty array.
\* First alternative: the longest run of word and space atoms from p that ends
\* in a word atom followed by a double quote (the greedy star can only stop at
\* the end of the run, every earlier atom being followed by a run atom).
\* Second alternative: the run of word atoms from p.
RECURSIVE matchFrom(_, _)
matchFrom(s, p) ==
    IF p > Len(s) THEN <<>>
    ELSE LET q == RunEnd(s, p, WordAtoms \cup SpaceAtoms)
             w == RunEnd(s, p, WordAtoms)
         IN  IF q > p /\ q <= Len(s) /\ s[q] = QUOTE /\ s[q - 1] \in WordAtoms
             THEN <<SubSeq(s, p, q - 1)>> \o matchFrom(s, q)
             ELSE IF w > p
             THEN <<SubSeq(s, p, w - 1)>> \o matchFrom(s, w)
             ELSE matchFrom(s, p + 1)

matchWords(s) == matchFrom(s, 1)

-----------------------------------------------------------------------------
(* Objects *)

\* Object.keys(o)
ObjKeys(o) == [i \in 1..Len(o) |-> o[i][1]]

\* Object.values(o)
ObjValues(o) == [i \in 1..Len(o) |-> o[i][2]]

\* k in o
ObjHas(o, k) == \E i \in 1..Len(o) : o[i][1] = k

\* o[k]
ObjGet(o, k) ==
    IF ObjHas(o, k) THEN o[CHOOSE i \in 1..Len(o) : o[i][1] = k][2] ELSE Undef

\* o[k] = v
ObjSet(o, k, v) ==
    IF ObjHas(o, k)
    THEN [i \in 1..Len(o) |-> IF o[i][1] = k THEN <<k, v>> ELSE o[i]]
    ELSE Append(o, <<k, v>>)

\* Object.fromEntries(entries)
RECURSIVE fromEntries(_)
fromEntries(entries) ==
    IF entries = <<>> THEN <<>>
    ELSE LET n == Len(entries)
         IN  ObjSet(fromEntries(SubSeq(entries, 1, n - 1)), entries[n][1], entries[n][2])

\* JSON.stringify(o) as stored in a cell: the properties whose value is undefined
\* are left out.  A cell holding '' is EmptyBlob.
RECURSIVE definedEntries(_)
definedEntries(o) ==
    IF o = <<>> THEN <<>>
    ELSE IF Head(o)[2] = Undef THEN definedEntries(Tail(o))
    ELSE <<Head(o)>> \o definedEntries(Tail(o))

EmptyBlob == [empty |-> TRUE, obj |-> <<>>]
stringify(o) == [empty |-> FALSE, obj |-> definedEntries(o)]

\* A value as written to a sheet cell: undefined leaves the cell empty.
Cell(v) == IF v = Undef THEN <<>> ELSE v

-----------------------------------------------------------------------------
(* Configuration sheet values read through getConfigSheetValue *)

itemIdColumnName == <<"item_id">>
titleColumnName == <<"title">>
descriptionColumnName == <<"description">>

\* The model call failed after its retries (Util.executeWithRetry rethrows).
Throws == <<"\\throws">>

-----------------------------------------------------------------------------
(* getGenerationMetrics *)

\* Util.getSetDifference(a, b): the elements of a that are not in b.
getSetDifference(a, b) == SelectSeq(a, LAMBDA x : ~includes(b, x))

\* The words of the generated title whose lower-case form is not an input word
\* (the Set newWordsAdded, in insertion order).
newWordsOf(genTitle, inputWords) ==
    dedup(SelectSeq(matchWords(genTitle), LAMBDA w : toLowerCase(w) \notin inputWords))

\* Number(b)
Number(b) == IF b THEN 1 ELSE 0

\* (n / 5).toString() for n in 0..5
fifthsToString(n) ==
    CASE n = 0 -> "0"
      [] n = 1 -> "0.2"
      [] n = 2 -> "0.4"
      [] n = 3 -> "0.6"
      [] n = 4 -> "0.8"
      [] n = 5 -> "1"

\* b.toString()
boolToString(b) == IF b THEN "true" ELSE "false"

\* indicatorSum with the new-words indicator inverted.
indicatorSumNewWordsInverted(origTitle, genTitle, origAttributes, genAttributes, inputWords, gapAttributesAndValues, originalInput) ==
    LET titleChanged == origTitle # genTitle
        addedAttributes == getSetDifference(genAttributes, origAttributes)
        newWordsAdded == newWordsOf(genTitle, inputWords)
        gapAttributesPresent ==
            SelectSeq(ObjKeys(gapAttributesAndValues), LAMBDA k : ObjHas(originalInput, k))
        gapAttributesInvented ==
            SelectSeq(ObjKeys(gapAttributesAndValues), LAMBDA k : ~ObjHas(originalInput, k))
    IN  Number(Len(addedAttributes) > 0)
        + Number(titleChanged)
        + Number(Len(newWordsAdded) > 0)
        + Number(Len(gapAttributesPresent) > 0)
        + Number(Len(gapAttributesInvented) > 0)

\* The sum of the five indicators, before the division by 5.
indicatorSum(origTitle, genTitle, origAttributes, genAttributes, inputWords, gapAttributesAndValues, originalInput) ==
    LET titleChanged == origTitle # genTitle
        addedAttributes == getSetDifference(genAttributes, origAttributes)
        newWordsAdded == newWordsOf(genTitle, inputWords)
        gapAttributesPresent ==
            SelectSeq(ObjKeys(gapAttributesAndValues), LAMBDA k : ObjHas(originalInput, k))
        gapAttributesInvented ==
            SelectSeq(ObjKeys(gapAttributesAndValues), LAMBDA k : ~ObjHas(originalInput, k))
    IN  Number(Len(addedAttributes) > 0)
        + Number(titleChanged)
        + Number(Len(newWordsAdded) = 0)
        + Number(Len(gapAttributesPresent) > 0)
        + Number(Len(gapAttributesInvented) > 0)

\* origAttributes and genAttributes are Sets, held as arrays without duplicates.
getGenerationMetrics(origTitle, genTitle, origAttributes, genAttributes, inputWords, gapAttributesAndValues, originalInput) ==
    LET titleChanged == origTitle # genTitle
        addedAttributes == getSetDifference(genAttributes, origAttributes)
        newWordsAdded == newWordsOf(genTitle, inputWords)
        totalScore ==
            indicatorSum(origTitle, genTitle, origAttributes, genAttributes, inputWords,
                         gapAttributesAndValues, originalInput)
    IN  [totalScore |-> fifthsToString(totalScore),
         titleChanged |-> boolToString(titleChanged),
         addedAttributes |->
             join([i \in 1..Len(addedAttributes) |-> <<"<">> \o addedAttributes[i] \o <<">">>],
                  <<SP>>),
         newWordsAdded |-> join(newWordsAdded, <<SP, SEPARATOR, SP>>)]

-----------------------------------------------------------------------------
(* optimizeRow *)

\* One list segment of the response: prefix removed, split on the separator,
\* empty pieces filtered out, then each piece trimmed.
parseSegment(line, promptPart) ==
    LET pieces == filterTruthy(split(replace(line, promptPart), SEPARATOR))
    IN  [i \in 1..Len(pieces) |-> trim(pieces[i])]

\* `<${x.trim()}>` for each key, joined by one blank.
template(keys) ==
    join([i \in 1..Len(keys) |-> <<"<">> \o trim(keys[i]) \o <<">">>], <<SP>>)

\* isGap without the forced inclusion of declared-but-empty keys.
isGapNoOverride(dataObj, origAttributes, attribute) ==
    /\ ~Truthy(ObjGet(dataObj, attribute))
    /\ ~includes(origAttributes, attribute)

\* Whether the forEach body records genAttributes[index] as a gap.
isGap(dataObj, origAttributes, attribute) ==
    /\ ~Truthy(ObjGet(dataObj, attribute))
    /\ (~includes(origAttributes, attribute) \/ includes(ObjKeys(dataObj), attribute))

\* array[index] (0 < index), undefined past the end.
At(a, index) == IF index <= Len(a) THEN a[index] ELSE Undef

\* gapAttributesAndValues after the forEach over the first n generated keys.
RECURSIVE gapsUpTo(_, _, _, _, _)
gapsUpTo(dataObj, origAttributes, genAttributes, genAttributeValues, n) ==
    IF n = 0 THEN <<>>
    ELSE LET before == gapsUpTo(dataObj, origAttributes, genAttributes,
                                genAttributeValues, n - 1)
             attribute == genAttributes[n]
         IN  IF isGap(dataObj, origAttributes, attribute)
             THEN ObjSet(before, attribute, At(genAttributeValues, n))
             ELSE before

\* titleFeature with `??` in place of `||`: an empty own cell is kept.
titleFeatureNullish(dataObj, genAttributes, genAttributeValues, index) ==
    LET own == ObjGet(dataObj, genAttributes[index])
    IN  IF own # Undef THEN own ELSE At(genAttributeValues, index)

\* What the forEach pushes to titleFeatures for genAttributes[index].
titleFeature(dataObj, genAttributes, genAttributeValues, index) ==
    LET own == ObjGet(dataObj, genAttributes[index])
    IN  IF Truthy(own) THEN own ELSE At(genAttributeValues, index)

\* Object.assign(data, {'Generated Title': generatedTitle}) in
\* fetchDescriptionGenerationData: the caller's object itself is changed.
assignGeneratedTitle(data, generatedTitle) ==
    ObjSet(data, GENERATED_TITLE_KEY, generatedTitle)

\* The lower-case words of all the values of an object.
RECURSIVE wordsOfValues(_)
wordsOfValues(values) ==
    IF values = <<>> THEN {}
    ELSE LET match == matchWords(Head(values))
         IN  {toLowerCase(match[i]) : i \in 1..Len(match)} \cup wordsOfValues(Tail(values))

\* The approval cell optimizeRow puts first in the row.
initialApproval == "FALSE"

\* optimizeRow(headers, data) with the two model answers it gets: res from
\* fetchTitleGenerationData and description from fetchDescriptionGenerationData
\* (Throws: the call failed).  The result holds the locals; threw tells that an
\* exception left the function (a failed call, or a missing line of the answer
\* whose .replace is then called on undefined).
optimizeRow(headers, data, res, description) ==
    LET dataObj0 == fromEntries([i \in 1..Len(data) |-> <<headers[i], data[i]>>])
        itemId == ObjGet(dataObj0, itemIdColumnName)
        origTitle == ObjGet(dataObj0, titleColumnName)
        origDescription == ObjGet(dataObj0, descriptionColumnName)
        lines == split(res, NL)
        genCategory == trim(replace(lines[2], CATEGORY_PROMPT_PART))
        genAttributes == parseSegment(lines[3], TEMPLATE_PROMPT_PART)
        genTemplate == template(genAttributes)
        origAttributes == parseSegment(lines[1], ORIGINAL_TITLE_TEMPLATE_PROMPT_PART)
        origTemplate == template(origAttributes)
        genAttributeValues == parseSegment(lines[4], ATTRIBUTES_PROMPT_PART)
        gapAttributesAndValues ==
            gapsUpTo(dataObj0, origAttributes, genAttributes, genAttributeValues,
                     Len(genAttributes))
        titleFeatures ==
            [i \in 1..Len(genAttributes) |->
                titleFeature(dataObj0, genAttributes, genAttributeValues, i)]
        genTitle == join(titleFeatures, <<SP>>)
        dataObj == assignGeneratedTitle(dataObj0, genTitle)
        inputWords == wordsOfValues(ObjValues(dataObj))
        m == getGenerationMetrics(origTitle, genTitle, dedup(origAttributes),
                                  dedup(genAttributes), inputWords,
                                  gapAttributesAndValues, dataObj)
    IN  IF res = Throws \/ Len(lines) < 4 \/ description = Throws
        THEN [threw |-> TRUE]
        ELSE [threw |-> FALSE,
              dataObj0 |-> dataObj0,
              dataObj |-> dataObj,
              origAttributes |-> origAttributes,
              genAttributes |-> genAttributes,
              genAttributeValues |-> genAttributeValues,
              gapAttributesAndValues |-> gapAttributesAndValues,
              titleFeatures |-> titleFeatures,
              genTitle |-> genTitle,
              inputWords |-> inputWords,
              row |->
                [approval |-> initialApproval,
                 status |-> "Success",
                 id |-> Cell(itemId),
                 titleGenerated |-> genTitle,
                 descriptionGenerated |-> description,
                 category |-> genCategory,
                 totalScore |-> m.totalScore,
                 titleChanged |-> m.titleChanged,
                 origTemplate |-> origTemplate,
                 genTemplate |-> genTemplate,
                 addedAttributes |-> m.addedAttributes,
                 newWordsAdded |-> m.newWordsAdded,
                 gapAttributes |->
                    IF Len(ObjKeys(gapAttributesAndValues)) > 0
                    THEN stringify(gapAttributesAndValues)
                    ELSE EmptyBlob,
                 originalInput |-> stringify(dataObj),
                 origTitle |-> Cell(origTitle),
                 origDescription |-> Cell(origDescription),
                 apiResponse |->
                    res \o <<NL, "product description: ">> \o description]]

-----------------------------------------------------------------------------
(* The generated sheet and the row driver *)

SUCCESS == "Success"
FAILED == "Failed"

\* The row appended on error: only the status cell is set.
failedRow ==
    [approval |-> "",
     status |-> FAILED \o ". See log for more details.",
     id |-> <<>>,
     titleGenerated |-> <<>>,
     descriptionGenerated |-> <<>>,
     category |-> <<>>,
     totalScore |-> "",
     titleChanged |-> "",
     origTemplate |-> <<>>,
     genTemplate |-> <<>>,
     addedAttributes |-> <<>>,
     newWordsAdded |-> <<>>,
     gapAttributes |-> EmptyBlob,
     originalInput |-> EmptyBlob,
     origTitle |-> <<>>,
     origDescription |-> <<>>,
     apiResponse |-> <<>>]

\* findRowIndex(generated sheet, [Status.SUCCESS], status column, startRow + 1,
\* negate = true) over the data rows: 0 on an empty range, the 0-based index of
\* the first row whose status is not Success, -1 when every row is Success.
findRowIndex(rows) ==
    IF Len(rows) = 0 THEN 0
    ELSE IF \E i \in 1..Len(rows) : rows[i].status # SUCCESS
    THEN (CHOOSE i \in 1..Len(rows) :
            /\ rows[i].status # SUCCESS
            /\ \A j \in 1..(i - 1) : rows[j].status = SUCCESS) - 1
    ELSE -1

\* getNextRowIndexToBeGenerated: totalGeneratedRows - startRow is the number of
\* data rows of the generated sheet.
getNextRowIndexToBeGenerated(rows) ==
    LET index == findRowIndex(rows)
    IN  IF index < 0 THEN Len(rows) ELSE index

\* setValuesInDefinedRange(generated, startRow + 1 + rowIndex, 1, [row])
setRow(rows, rowIndex, row) ==
    IF rowIndex + 1 <= Len(rows)
    THEN [rows EXCEPT ![rowIndex + 1] = row]
    ELSE Append(rows, row)

\* generatedSheet.appendRow(row): after the last row that has content.
appendRow(rows, row) == Append(rows, row)

-----------------------------------------------------------------------------
(* The approved (output) sheet *)

\* new Date().toISOString(): the clock is not modelled, every export stamps Now.
Now == <<"timestamp">>

\* Output column names (CONFIG.sheets.output.cols.*.name).
outputIdName == <<"id">>
outputTitleName == <<"title">>
outputDescriptionName == <<"description">>

EmptyOutput == [header |-> <<>>, rows |-> <<>>]

\* array.flat(1) of an array of arrays
RECURSIVE flat(_)
flat(a) == IF a = <<>> THEN <<>> ELSE Head(a) \o flat(Tail(a))

\* JSON.parse of a cell that is not empty
parse(blob) == blob.obj

\* getGapAndInventedAttributes(rows): <<inventedAttributes, gapAttributes>>
getGapAndInventedAttributes(rows) ==
    LET withGaps == SelectSeq(rows, LAMBDA row : ~row.gapAttributes.empty)
        withInput == SelectSeq(rows, LAMBDA row : ~row.originalInput.empty)
        filledInGapAttributes ==
            dedup(flat([i \in 1..Len(withGaps) |-> ObjKeys(parse(withGaps[i].gapAttributes))]))
        allInputAttributes ==
            dedup(flat([i \in 1..Len(withInput) |-> ObjKeys(parse(withInput[i].originalInput))]))
        inventedAttributes ==
            SelectSeq(filledInGapAttributes, LAMBDA k : ~includes(allInputAttributes, k))
        gapAttributes ==
            SelectSeq(filledInGapAttributes, LAMBDA k : ~includes(inventedAttributes, k))
    IN  <<inventedAttributes, gapAttributes>>

\* The rows exportApproved reads: approval === true.
approvedRows(rows) == SelectSeq(rows, LAMBDA row : row.approval = "TRUE")

\* One export record of exportApproved's loop.
exportRow(row, gapAndInventedAttributes) ==
    LET gapAttributesAndValues ==
            IF row.gapAttributes.empty THEN <<>> ELSE parse(row.gapAttributes)
        gapAttributesKeys == ObjKeys(gapAttributesAndValues)
        originalInput ==
            IF row.originalInput.empty THEN <<>> ELSE parse(row.originalInput)
    IN  <<Now, row.id, row.titleGenerated, row.descriptionGenerated>>
        \o [i \in 1..Len(gapAndInventedAttributes) |->
              LET attribute == gapAndInventedAttributes[i]
              IN  Cell(IF includes(gapAttributesKeys, attribute)
                       THEN ObjGet(gapAttributesAndValues, attribute)
                       ELSE ObjGet(originalInput, attribute))]

\* The output sheet after clearApprovedData and writeApprovedData: the header
\* and one record per approved row.
exportTable(feedGenRows) ==
    LET attrs == getGapAndInventedAttributes(feedGenRows)
        inventedAttributes == attrs[1]
        gapAttributes == attrs[2]
        gapAndInventedAttributes == gapAttributes \o inventedAttributes
        outputHeader ==
            <<outputIdName, outputTitleName, outputDescriptionName>>
            \o gapAttributes
            \o [i \in 1..Len(inventedAttributes) |-> <<"new_">> \o inventedAttributes[i]]
    IN  [header |-> outputHeader,
         rows |-> [i \in 1..Len(feedGenRows) |->
                     exportRow(feedGenRows[i], gapAndInventedAttributes)]]

\* exportedOutput without the early return on an empty selection.
exportedOutputNoEarlyReturn(rows, out) == exportTable(approvedRows(rows))

\* The output sheet after exportApproved: untouched when no row is approved,
\* else cleared and rewritten.
exportedOutput(rows, out) ==
    LET feedGenRows == approvedRows(rows)
    IN  IF Len(feedGenRows) = 0 THEN out ELSE exportTable(feedGenRows)

\* approvedByFilter with the ternary's branches swapped: the hidden rows are approved.
approvedByFilterSwapped(rows, hiddenRows) ==
    [i \in 1..Len(rows) |->
        [rows[i] EXCEPT !.approval = IF i \in hiddenRows THEN "TRUE" ELSE rows[i].approval]]

\* The rows approveFiltered writes back: approval set on every row the filter shows.
approvedByFilter(rows, hiddenRows) ==
    [i \in 1..Len(rows) |->
        [rows[i] EXCEPT !.approval = IF i \in hiddenRows THEN rows[i].approval ELSE "TRUE"]]

-----------------------------------------------------------------------------
(* Bounds and the inputs the model draws from *)

MaxInputRows == 2        \* data rows of the input sheet
MaxGeneratedRows == 3    \* the driver stops appending Failed rows at this many rows

inputHeaders == << <<"item_id">>, <<"title">>, <<"color">> >>

\* The input feed; a sheet of the model holds its first rows.
FeedRows ==
    << << <<"1">>, <<"Red", SP, "Shoe">>, <<>> >>,
       << <<"2">>, <<"Blue", SP, "Shoe">>, <<"Blue">> >>,
       << <<"10">>, <<"Wood">>, <<>> >>,
       << <<"1">>, <<"Shoe">>, <<"Red">> >> >>

\* A well-formed answer: the four lines with their prompt parts.
response(origKeys, category, genKeys, genValues) ==
    <<ORIGINAL_TITLE_TEMPLATE_PROMPT_PART>> \o origKeys \o <<NL>>
    \o <<CATEGORY_PROMPT_PART>> \o category \o <<NL>>
    \o <<TEMPLATE_PROMPT_PART>> \o genKeys \o <<NL>>
    \o <<ATTRIBUTES_PROMPT_PART>> \o genValues

\* "product attribute keys in original title:color|\nproduct category:Footwear\n
\*  product attribute keys:color|size|\nproduct attribute values:Red|10|"
ExampleResponse ==
    response(<<"color", SEPARATOR>>, <<"Footwear">>,
             <<"color", SEPARATOR, "size", SEPARATOR>>,
             <<"Red", SEPARATOR, "10", SEPARATOR>>)

\* An answer that invents one attribute and repeats the title.
InventedResponse ==
    response(<<"title">>, <<"Footwear">>,
             <<"title", SEPARATOR, SP, "material">>,
             <<"Shoe", SEPARATOR, SP, "Wood">>)

\* An answer cut after its second line.
ShortResponse ==
    <<ORIGINAL_TITLE_TEMPLATE_PROMPT_PART, "color", NL, CATEGORY_PROMPT_PART, "Footwear">>

\* What fetchTitleGenerationData can hand to the driver's rows.
SheetResponses == {ExampleResponse, ShortResponse, Throws}

\* What fetchDescriptionGenerationData can return.
Descriptions == {<<"desc">>, Throws}

NoRun == [threw |-> FALSE, idle |-> TRUE]
NoArgs == [idle |-> TRUE]
NoMetrics == [idle |-> TRUE]

-----------------------------------------------------------------------------
(* The handlers *)

Init ==
    /\ \E n \in 1..MaxInputRows :
          input = [headers |-> inputHeaders, rows |-> SubSeq(FeedRows, 1, n)]
    /\ generated = <<>>
    /\ output = EmptyOutput
    /\ hidden = {}
    /\ op = "init"
    /\ ret = 0
    /\ wrote = -1
    /\ threw = FALSE
    /\ run = NoRun
    /\ args = NoArgs
    /\ metrics = NoMetrics

\* generateNextRow(): the model answers are the inputs of the step.
generateNextRow ==
    \E res \in SheetResponses, description \in Descriptions :
        LET rowIndex == getNextRowIndexToBeGenerated(generated)
            r == optimizeRow(input.headers, input.rows[rowIndex + 1], res, description)
        IN  /\ op' = "generateNextRow"
            /\ IF rowIndex >= Len(input.rows)
               THEN /\ ret' = -1
                    /\ wrote' = -1
                    /\ threw' = FALSE
                    /\ UNCHANGED generated
               ELSE /\ ret' = rowIndex
                    /\ threw' = r.threw
                    /\ IF ~r.threw
                       THEN /\ generated' = setRow(generated, rowIndex, r.row)
                            /\ wrote' = rowIndex
                       ELSE /\ Len(generated) < MaxGeneratedRows
                            /\ generated' = appendRow(generated, failedRow)
                            /\ wrote' = Len(generated)
            /\ UNCHANGED <<input, output, hidden, run, args, metrics>>

\* approveFiltered(): the filter state of the sheet is the input of the step.
approveFiltered ==
    \E hiddenRows \in SUBSET (1..Len(generated)) :
        /\ op' = "approveFiltered"
        /\ hidden' = hiddenRows
        /\ generated' = approvedByFilter(generated, hiddenRows)
        /\ ret' = 0
        /\ wrote' = -1
        /\ threw' = FALSE
        /\ UNCHANGED <<input, output, run, args, metrics>>

\* exportApproved()
exportApproved ==
    /\ op' = "exportApproved"
    /\ output' = exportedOutput(generated, output)
    /\ ret' = 0
    /\ wrote' = -1
    /\ threw' = FALSE
    /\ UNCHANGED <<input, generated, hidden, run, args, metrics>>

\* clearGeneratedRows()
clearGeneratedRows ==
    /\ op' = "clearGeneratedRows"
    /\ generated' = <<>>
    /\ ret' = 0
    /\ wrote' = -1
    /\ threw' = FALSE
    /\ UNCHANGED <<input, output, hidden, run, args, metrics>>

Next ==
    \/ generateNextRow
    \/ approveFiltered
    \/ exportApproved
    \/ clearGeneratedRows

Spec == Init /\ [][Next]_vars

-----------------------------------------------------------------------------
(* optimizeRow alone: RowSpec draws one row and the model answers, then runs it *)

\* Rows with their headers: the feed rows, a row with a declared empty size
\* column, and a row whose feed already has a 'Generated Title' column.
RowInputs ==
    {[headers |-> inputHeaders, data |-> FeedRows[i]] : i \in 1..Len(FeedRows)}
    \cup {[headers |-> << <<"item_id">>, <<"title">>, <<"size">>, <<"color">> >>,
           data |-> << <<"2">>, <<"Red", SP, "Shoe", SP, QUOTE, "Blue", SP, "Wood", QUOTE>>,
                       <<>>, <<"Red">> >>],
          [headers |-> << <<"title">>, GENERATED_TITLE_KEY >>,
           data |-> << <<"Shoe">>, <<"Red", SP, "Shoe">> >>]}

OrigSegments ==
    {<<>>,
     <<"color", SEPARATOR>>,
     <<"title">>,
     <<SP, "color", SP, SEPARATOR, "size">>}

GenSegments ==
    {<<>>,
     <<"color", SEPARATOR, "size", SEPARATOR>>,
     <<"color", SEPARATOR, SP, SEPARATOR, "size">>,
     <<"title", SEPARATOR, SP, "material">>,
     <<"size", SEPARATOR, "color", SEPARATOR, "size">>,
     <<SEPARATOR, SEPARATOR, "material", SP>>}

ValueSegments ==
    {<<"Red", SEPARATOR, "10", SEPARATOR>>,
     <<"Red", SEPARATOR, SP, SEPARATOR, "10">>,
     <<"Shoe", SEPARATOR, SP, "Wood">>,
     <<"10">>}

RowResponses ==
    {response(o, <<SP, "Footwear">>, g, v) :
        o \in OrigSegments, g \in GenSegments, v \in ValueSegments}
    \cup {ExampleResponse, InventedResponse, ShortResponse, Throws}

InitRow ==
    /\ input = [headers |-> inputHeaders, rows |-> <<>>]
    /\ generated = <<>>
    /\ output = EmptyOutput
    /\ hidden = {}
    /\ op = "init"
    /\ ret = 0
    /\ wrote = -1
    /\ threw = FALSE
    /\ run = NoRun
    /\ \E in \in RowInputs, res \in RowResponses, description \in Descriptions :
          args = [headers |-> in.headers, data |-> in.data, res |-> res,
                  description |-> description]
    /\ metrics = NoMetrics

optimizeRowCall ==
    /\ op = "init"
    /\ op' = "optimizeRow"
    /\ run' = optimizeRow(args.headers, args.data, args.res, args.description)
    /\ UNCHANGED <<input, generated, output, hidden, ret, wrote, threw, args, metrics>>

NextRow == optimizeRowCall

RowSpec == InitRow /\ [][NextRow]_vars

-----------------------------------------------------------------------------
(* getGenerationMetrics alone: MetricsSpec draws its seven arguments *)

MetricTitles == {Undef, <<>>, <<"Red", SP, "Shoe">>, <<"Red", SP, "10">>, <<"Shoe", SP, "Wood">>}

MetricKeyLists ==
    {<<>>, << <<"color">> >>, << <<"color">>, <<"size">> >>, << <<"size">>, <<"material">> >>}

MetricInputWords == {{}, {<<"red">>, <<"shoe">>}, {<<"red">>, <<"shoe">>, <<"10">>}}

MetricGaps ==
    {<<>>,
     << <<<<"color">>, <<"Red">>>> >>,
     << <<<<"size">>, <<"10">>>> >>,
     << <<<<"color">>, <<"Red">>>>, <<<<"size">>, <<"10">>>> >>,
     << <<<<"material">>, Undef>> >>}

MetricInputs ==
    {<<>>,
     << <<<<"item_id">>, <<"1">>>>, <<<<"title">>, <<"Red", SP, "Shoe">>>>,
        <<<<"color">>, <<>>>> >>,
     << <<<<"title">>, <<"Shoe">>>>, <<<<"size">>, <<>>>>,
        <<GENERATED_TITLE_KEY, <<"Red", SP, "10">>>> >>}

InitMetrics ==
    /\ input = [headers |-> inputHeaders, rows |-> <<>>]
    /\ generated = <<>>
    /\ output = EmptyOutput
    /\ hidden = {}
    /\ op = "init"
    /\ ret = 0
    /\ wrote = -1
    /\ threw = FALSE
    /\ run = NoRun
    /\ \E origTitle \in MetricTitles, genTitle \in MetricTitles \ {Undef},
          origAttributes \in MetricKeyLists, genAttributes \in MetricKeyLists,
          inputWords \in MetricInputWords, gaps \in MetricGaps,
          originalInput \in MetricInputs :
          args = [origTitle |-> origTitle, genTitle |-> genTitle,
                  origAttributes |-> origAttributes, genAttributes |-> genAttributes,
                  inputWords |-> inputWords, gapAttributesAndValues |-> gaps,
                  originalInput |-> originalInput]
    /\ metrics = NoMetrics

getGenerationMetricsCall ==
    /\ op = "init"
    /\ op' = "getGenerationMetrics"
    /\ metrics' = getGenerationMetrics(args.origTitle, args.genTitle, args.origAttributes,
                                       args.genAttributes, args.inputWords,
                                       args.gapAttributesAndValues, args.originalInput)
    /\ UNCHANGED <<input, generated, output, hidden, ret, wrote, threw, run, args>>

NextMetrics == getGenerationMetricsCall

MetricsSpec == InitMetrics /\ [][NextMetrics]_vars

-----------------------------------------------------------------------------
(* Properties of the row driver (Spec) *)

\* The last handler was a generateNextRow that caught an exception of optimizeRow.
FailedGeneration == op = "generateNextRow" /\ threw

\* C1: when the generation of input row k fails, the Failed status is recorded
\* in the generated sheet at row index k, the row that was being generated,
\* also when the same row fails on several consecutive invocations.
C1_FailedStatusOnGeneratedRow ==
    FailedGeneration =>
        /\ wrote = ret
        /\ generated[ret + 1].status = failedRow.status

\* C9: a failure on input row k does not stop the batch: when the input sheet
\* has rows after k, the generateNextRow that follows the failure goes on to a
\* row after k (so a row k that fails on every attempt blocks no later row).
C9_BatchContinuesPastFailedRow ==
    [][(FailedGeneration /\ ret + 1 < Len(input.rows) /\ op' = "generateNextRow")
         => ret' > ret]_vars

\* C6: exportApproved invoked when no generated row has approval true leaves the
\* output sheet and the generated sheet exactly as they were.
C6_ExportWithoutApprovedRowsIsNoOp ==
    [][(op' = "exportApproved" /\ \A i \in 1..Len(generated) : generated[i].approval # "TRUE")
         => (output' = output /\ generated' = generated)]_vars

\* An export that found no approved row while the output sheet held records.
C6_Witness ==
    /\ op = "exportApproved"
    /\ \A i \in 1..Len(generated) : generated[i].approval # "TRUE"
    /\ Len(generated) > 0
    /\ Len(output.rows) > 0

\* Row i of the generated sheet carries approval true after the step and did
\* not before it.
BecomesApproved(i) ==
    /\ generated'[i].approval = "TRUE"
    /\ (i > Len(generated) \/ generated[i].approval # "TRUE")

\* C7: every row written by generateNextRow has an approval flag that is not
\* true; a row's approval flag changes to true only in an approveFiltered step
\* in which the filter does not hide that row; approveFiltered leaves the
\* approval flag of every hidden row unchanged.
C7_ApprovalOnlyByApproveFiltered ==
    [][/\ (op' = "generateNextRow" /\ wrote' >= 0)
            => generated'[wrote' + 1].approval # "TRUE"
       /\ \A i \in 1..Len(generated') :
            BecomesApproved(i) => (op' = "approveFiltered" /\ i \notin hidden')
       /\ op' = "approveFiltered"
            => /\ Len(generated') = Len(generated)
               /\ \A i \in hidden' : generated'[i].approval = generated[i].approval]_vars

\* approveFiltered has run with one row hidden and left unapproved and another
\* row shown and approved.
C7_Witness ==
    /\ op = "approveFiltered"
    /\ \E i \in hidden : generated[i].approval # "TRUE"
    /\ \E j \in 1..Len(generated) : j \notin hidden /\ generated[j].approval = "TRUE"

-----------------------------------------------------------------------------
(* Properties of optimizeRow (RowSpec) *)

\* optimizeRow has returned a row for the drawn inputs.
Optimized == op = "optimizeRow" /\ ~run.threw

\* The Row Context of the call: the object built from the headers and cells.
RowContext == fromEntries([i \in 1..Len(args.data) |-> <<args.headers[i], args.data[i]>>])

\* C2: for every key k of the parsed generated-attribute keys, k is a key of
\* the Gap/Invented Attribute Map iff the Row Context value for k is falsy and
\* (k is not among the original-title keys or k is a key of the Row Context);
\* no key whose Row Context value is truthy is in the map.
C2_GapMapKeys ==
    Optimized =>
        LET context == run.dataObj0
            mapKeys == SetOf(ObjKeys(run.gapAttributesAndValues))
            falsy(k) == ObjGet(context, k) \in {Undef, <<>>}
        IN  /\ context = RowContext
            /\ mapKeys \subseteq SetOf(run.genAttributes)
            /\ \A k \in SetOf(run.genAttributes) :
                  k \in mapKeys <=>
                     /\ falsy(k)
                     /\ (k \notin SetOf(run.origAttributes) \/ k \in SetOf(ObjKeys(context)))
            /\ \A k \in mapKeys : ~Truthy(ObjGet(context, k))

\* A declared-but-empty key of the original title template is in the map, and a
\* generated key with a truthy Row Context value is not.
C2_Witness ==
    /\ Optimized
    /\ \E k \in SetOf(run.genAttributes) :
          /\ k \in SetOf(run.origAttributes)
          /\ ObjGet(run.dataObj0, k) = <<>>
          /\ ObjHas(run.gapAttributesAndValues, k)
    /\ \E k \in SetOf(run.genAttributes) :
          /\ Truthy(ObjGet(run.dataObj0, k))
          /\ ~ObjHas(run.gapAttributesAndValues, k)

\* C3: newWordsAdded is exactly the words of the generated title whose
\* lower-case form is absent from the input-word set, the lower-case words of
\* the cell values of the input row.
C3_NewWordsAgainstInputRow ==
    Optimized =>
        run.row.newWordsAdded =
            join(newWordsOf(run.genTitle, wordsOfValues(args.data)), <<SP, SEPARATOR, SP>>)

\* C4: the Row Context is an immutable snapshot: after the pipeline it is the
\* object built from the headers and cells, and the original-input blob of the
\* generated record has exactly those keys and values.
C4_RowContextUnchanged ==
    Optimized =>
        /\ run.dataObj = RowContext
        /\ ~run.row.originalInput.empty
        /\ run.row.originalInput.obj = RowContext

\* The Row Context, answer keys and answer values of the example.
ExampleCall ==
    /\ Optimized
    /\ args.headers = << <<"item_id">>, <<"title">>, <<"color">> >>
    /\ args.data = << <<"1">>, <<"Red", SP, "Shoe">>, <<>> >>
    /\ run.origAttributes = << <<"color">> >>
    /\ run.genAttributes = << <<"color">>, <<"size">> >>
    /\ run.genAttributeValues = << <<"Red">>, <<"10">> >>

\* C8 as stated: the example yields generated template "<color> <size>", the
\* Gap/Invented Attribute Map {size: "10"} and generated title "Red Shoe 10".
C8_ExampleAsStated ==
    ExampleCall =>
        /\ Str(run.row.genTemplate) = "<color> <size>"
        /\ run.gapAttributesAndValues = << <<<<"size">>, <<"10">>>> >>
        /\ Str(run.genTitle) = "Red Shoe 10"

\* C8 amended: the example yields generated template "<color> <size>", the
\* Gap/Invented Attribute Map {color: "Red", size: "10"} and generated title
\* "Red 10".
C8_Example ==
    ExampleCall =>
        /\ Str(run.row.genTemplate) = "<color> <size>"
        /\ run.gapAttributesAndValues =
              << <<<<"color">>, <<"Red">>>>, <<<<"size">>, <<"10">>>> >>
        /\ run.row.gapAttributes = stringify(run.gapAttributesAndValues)
        /\ Str(run.genTitle) = "Red 10"
        /\ run.row.titleGenerated = run.genTitle

\* The example has been run on the example answer itself.
C8_Witness == ExampleCall /\ args.res = ExampleResponse

\* The pieces of a list segment, each trimmed, the empty ones then dropped.
trimmedPieces(line, promptPart) ==
    LET pieces == split(replace(line, promptPart), SEPARATOR)
    IN  filterTruthy([i \in 1..Len(pieces) |-> trim(pieces[i])])

\* C10: each of the three parsed sequences equals the pieces obtained by
\* stripping the prefix and splitting on '|', each trimmed, every piece empty
\* after trimming dropped; no parsed key or value is the empty string.
C10_ParsedSegments ==
    Optimized =>
        LET lines == split(args.res, NL)
        IN  /\ run.origAttributes = trimmedPieces(lines[1], ORIGINAL_TITLE_TEMPLATE_PROMPT_PART)
            /\ run.genAttributes = trimmedPieces(lines[3], TEMPLATE_PROMPT_PART)
            /\ run.genAttributeValues = trimmedPieces(lines[4], ATTRIBUTES_PROMPT_PART)
            /\ \A x \in SetOf(run.origAttributes) \cup SetOf(run.genAttributes)
                        \cup SetOf(run.genAttributeValues) : x # <<>>

-----------------------------------------------------------------------------
(* Properties of getGenerationMetrics (MetricsSpec) *)

\* The five indicators of the score, from the arguments of the call.
Indicators ==
    LET gapKeys == SetOf(ObjKeys(args.gapAttributesAndValues))
        inputKeys == SetOf(ObjKeys(args.originalInput))
    IN  <<SetOf(args.genAttributes) \ SetOf(args.origAttributes) # {},
          args.origTitle # args.genTitle,
          \A w \in SetOf(matchWords(args.genTitle)) : toLowerCase(w) \in args.inputWords,
          gapKeys \cap inputKeys # {},
          gapKeys \ inputKeys # {}>>

\* C5: totalScore is the number of true indicators among the five divided by
\* 5, hence one of 0, 0.2, 0.4, 0.6, 0.8, 1.
C5_TotalScoreInFifths ==
    op = "getGenerationMetrics" =>
        LET n == Cardinality({i \in 1..5 : Indicators[i]})
        IN  /\ metrics.totalScore = <<"0", "0.2", "0.4", "0.6", "0.8", "1">>[n + 1]
            /\ metrics.totalScore \in {"0", "0.2", "0.4", "0.6", "0.8", "1"}

\* A call scored 0.6 with a new word in the generated title: attributes added,
\* title changed, an invented attribute, no gap attribute of the Row Context.
C5_Witness ==
    /\ op = "getGenerationMetrics"
    /\ metrics.totalScore = "0.6"
    /\ Indicators = <<TRUE, TRUE, FALSE, FALSE, TRUE>>

-----------------------------------------------------------------------------
(* Properties of the export (Spec) *)

\* The approved rows of the generated sheet whose status is Success.
approvedSuccessRows(rows) == SelectSeq(approvedRows(rows), LAMBDA row : row.status = SUCCESS)

\* C11: exportApproved writes an export record only for generated rows whose
\* status is Success: an export that writes leaves one record per approved
\* Success row in the output sheet, and none for a row recorded as Failed.
C11_ExportOnlySuccessRows ==
    [][(op' = "exportApproved" /\ Len(approvedRows(generated)) > 0)
         => Len(output'.rows) = Len(approvedSuccessRows(generated))]_vars

====
